---- MODULE Spec2Model ----
(***************************************************************************)
(* Model of the just-extension crate (src/src/lib.rs): the name helpers    *)
(* prepend_just_prefix / is_github_url / get_repository_name and the       *)
(* Extension operations get_path_of, is_installed, install, uninstall,     *)
(* list, over an explicit model of the file system they touch (the binary  *)
(* directory Folder.bin_path, the process working directory, and what lies *)
(* beside them up to the root).                                            *)
(*                                                                         *)
(* Strings are TLA+ strings; a character is a string of length 1.          *)
(***************************************************************************)
EXTENDS Integers, Sequences, FiniteSets, TLC

VARIABLES
    exe_suffix,   \* std::env::consts::EXE_SUFFIX of the build target
    cwd_utf8,     \* whether the path of the current directory is valid UTF-8
    bin,          \* the tree under Folder.bin_path: path -> entry
    outside,      \* the entries beside bin_path's ancestors: path -> entry
    cwd,          \* the children of the current directory: name -> entry
    cwd_exists,   \* FALSE once the current directory itself was removed
    pc,           \* position of the caller: "idle", a stage of install, ...
    url,          \* install: the url argument of the running call
    repo,         \* install: the local `repo` (line 81)
    ret,          \* the last call made and what it returned
    stages,       \* history: the stages the last install call executed
    removed       \* history: the targets of remove_dir_all in that call

vars == <<exe_suffix, cwd_utf8, bin, outside, cwd, cwd_exists, pc, url, repo, ret, stages, removed>>

(***************************************************************************)
(* Bounds of the model.                                                    *)
(***************************************************************************)
\* the longest path (in segments after the host) of an enumerated URL
MaxSegs == 3
\* the nesting depth of the enumerated binary directory trees
MaxDepth == 2

(***************************************************************************)
(* Strings.                                                                *)
(***************************************************************************)
Ch(s, i) == SubSeq(s, i, i)
From(s, i) == SubSeq(s, i, Len(s))
Upto(s, i) == SubSeq(s, 1, i)

\* str::starts_with / str::ends_with
starts_with(s, p) == Len(s) >= Len(p) /\ SubSeq(s, 1, Len(p)) = p
ends_with(s, p) == Len(s) >= Len(p) /\ SubSeq(s, Len(s) - Len(p) + 1, Len(s)) = p

\* the index of the first character of s that lies in C, or Len(s)+1
FirstIn(s, C) ==
    IF \E i \in 1..Len(s) : Ch(s, i) \in C
    THEN CHOOSE i \in 1..Len(s) :
            Ch(s, i) \in C /\ \A j \in 1..(i - 1) : Ch(s, j) \notin C
    ELSE Len(s) + 1

\* the index of the first character of s that lies outside C, or Len(s)+1
FirstNotIn(s, C) ==
    IF \E i \in 1..Len(s) : Ch(s, i) \notin C
    THEN CHOOSE i \in 1..Len(s) :
            Ch(s, i) \notin C /\ \A j \in 1..(i - 1) : Ch(s, j) \in C
    ELSE Len(s) + 1

\* the index of the last character of s that lies in C, or 0
LastIn(s, C) ==
    IF \E i \in 1..Len(s) : Ch(s, i) \in C
    THEN CHOOSE i \in 1..Len(s) :
            Ch(s, i) \in C /\ \A j \in (i + 1)..Len(s) : Ch(s, j) \notin C
    ELSE 0

\* the index of the last character of s that lies outside C, or 0
LastNotIn(s, C) ==
    IF \E i \in 1..Len(s) : Ch(s, i) \notin C
    THEN CHOOSE i \in 1..Len(s) :
            Ch(s, i) \notin C /\ \A j \in (i + 1)..Len(s) : Ch(s, j) \in C
    ELSE 0

RECURSIVE Split(_, _)
\* str::split(sep) for a one-character separator: always at least one piece
Split(s, sep) ==
    LET i == FirstIn(s, {sep})
    IN  IF i > Len(s) THEN <<s>>
        ELSE <<Upto(s, i - 1)>> \o Split(From(s, i + 1), sep)

LowerAlpha == {"a","b","c","d","e","f","g","h","i","j","k","l","m",
               "n","o","p","q","r","s","t","u","v","w","x","y","z"}
UpperAlpha == {"A","B","C","D","E","F","G","H","I","J","K","L","M",
               "N","O","P","Q","R","S","T","U","V","W","X","Y","Z"}
Digits == {"0","1","2","3","4","5","6","7","8","9"}
UpperStr == "ABCDEFGHIJKLMNOPQRSTUVWXYZ"
LowerStr == "abcdefghijklmnopqrstuvwxyz"

LowerCh(c) ==
    IF c \in UpperAlpha
    THEN Ch(LowerStr, CHOOSE i \in 1..26 : Ch(UpperStr, i) = c)
    ELSE c

RECURSIVE to_ascii_lowercase(_)
to_ascii_lowercase(s) ==
    IF s = "" THEN "" ELSE LowerCh(Ch(s, 1)) \o to_ascii_lowercase(From(s, 2))

DigitVal(c) == CHOOSE n \in 0..9 : Ch("0123456789", n + 1) = c

\* Option<T> as a record of one shape
Some(x) == [some |-> TRUE, v |-> x]
NoStr == [some |-> FALSE, v |-> ""]
NoSeq == [some |-> FALSE, v |-> <<>>]

(***************************************************************************)
(* url::Url::parse, Url::host_str and Url::path_segments (the url crate,   *)
(* as called from get_repository_name), for inputs over the characters     *)
(* letters, digits, space and  . - + : /  . The characters @ ? # \ % [ ]   *)
(* , the file scheme and host labels that begin with xn-- (punycode) are   *)
(* outside the inputs this covers.                                         *)
(***************************************************************************)
SpecialSchemes == {"http", "https", "ws", "wss", "ftp"}
SchemeChars == LowerAlpha \cup UpperAlpha \cup Digits \cup {"+", "-", "."}
\* the characters a host may consist of, among those the inputs use
HostChars == LowerAlpha \cup UpperAlpha \cup Digits \cup {"-", ".", "+"}

\* the parser first drops leading and trailing spaces
Trim(s) ==
    LET a == FirstNotIn(s, {" "})
        b == LastNotIn(s, {" "})
    IN  IF b = 0 THEN "" ELSE SubSeq(s, a, b)

\* parse_scheme: the index of the ':' that ends a scheme, or 0
SchemeEnd(s) ==
    IF s = "" \/ Ch(s, 1) \notin (LowerAlpha \cup UpperAlpha) THEN 0
    ELSE LET i == FirstNotIn(s, SchemeChars)
         IN  IF i <= Len(s) /\ Ch(s, i) = ":" THEN i ELSE 0

\* percent-encoding of a path segment: of these characters only the space
RECURSIVE EncodeSegment(_)
EncodeSegment(s) ==
    IF s = "" THEN ""
    ELSE (IF Ch(s, 1) = " " THEN "%20" ELSE Ch(s, 1)) \o EncodeSegment(From(s, 2))

RECURSIVE NormSegs(_, _)
\* the path state: "." and ".." segments are resolved while parsing
NormSegs(raw, acc) ==
    IF raw = <<>> THEN acc
    ELSE LET seg == Head(raw)
             last == Len(raw) = 1
             rest == Tail(raw)
         IN  IF seg = ".."
             THEN LET popped == IF acc = <<>> THEN acc
                                ELSE SubSeq(acc, 1, Len(acc) - 1)
                  IN  NormSegs(rest, IF last THEN Append(popped, "") ELSE popped)
             ELSE IF seg = "."
             THEN NormSegs(rest, IF last THEN Append(acc, "") ELSE acc)
             ELSE NormSegs(rest, Append(acc, EncodeSegment(seg)))

\* the segments of a path that begins with '/'
PathSegs(path) == NormSegs(Split(From(path, 2), "/"), <<>>)

UrlErr == [ok |-> FALSE, host |-> NoStr, segs |-> NoSeq]

OctDigits == {"0","1","2","3","4","5","6","7"}
HexDigits == Digits \cup {"a","b","c","d","e","f","A","B","C","D","E","F"}

\* char::to_digit(16)
HexVal(c) == CHOOSE n \in 0..15 : Ch("0123456789abcdef", n + 1) = LowerCh(c)

\* a u32 as its four bytes, most significant first; over: the value no
\* longer fits a u32
U32Zero == [b |-> <<0, 0, 0, 0>>, over |-> FALSE]

\* acc * radix + digit on such a u32
MulAdd(a, radix, d) ==
    LET t4 == a.b[4] * radix + d
        t3 == a.b[3] * radix + t4 \div 256
        t2 == a.b[2] * radix + t3 \div 256
        t1 == a.b[1] * radix + t2 \div 256
    IN  [b |-> <<t1 % 256, t2 % 256, t3 % 256, t4 % 256>>,
         over |-> a.over \/ t1 > 255]

RECURSIVE from_str_radix(_, _, _)
\* u32::from_str_radix on a string of digits of that radix
from_str_radix(s, radix, acc) ==
    IF s = "" THEN acc
    ELSE from_str_radix(From(s, 2), radix, MulAdd(acc, radix, HexVal(Ch(s, 1))))

\* the number a part denotes once its radix is known; ok is FALSE when a
\* character is not a digit of that radix
ParsedNumber(body, radix, allowed) ==
    IF body = "" THEN [ok |-> TRUE, n |-> U32Zero]
    ELSE IF \E i \in 1..Len(body) : Ch(body, i) \notin allowed
    THEN [ok |-> FALSE, n |-> U32Zero]
    ELSE [ok |-> TRUE, n |-> from_str_radix(body, radix, U32Zero)]

\* host.rs parse_ipv4number: a decimal, 0-prefixed octal or 0x-prefixed
\* hexadecimal number; ok is FALSE when the part is not a number
parse_ipv4number(input) ==
    IF input = "" THEN [ok |-> FALSE, n |-> U32Zero]
    ELSE IF starts_with(input, "0x") \/ starts_with(input, "0X")
    THEN ParsedNumber(From(input, 3), 16, HexDigits)
    ELSE IF Len(input) >= 2 /\ starts_with(input, "0")
    THEN ParsedNumber(From(input, 2), 8, OctDigits)
    ELSE ParsedNumber(input, 10, Digits)

\* the parts of a host between its dots, without one trailing empty part
DropEmptyLast(parts) ==
    IF parts[Len(parts)] = "" THEN SubSeq(parts, 1, Len(parts) - 1) ELSE parts

Ipv4Parts(domain) == DropEmptyLast(Split(domain, "."))

\* a part that consists of decimal digits or parses as a number
IsNumber(last) ==
    \/ last # "" /\ \A i \in 1..Len(last) : Ch(last, i) \in Digits
    \/ parse_ipv4number(last).ok

LastIsNumber(parts) == parts # <<>> /\ IsNumber(parts[Len(parts)])

\* host.rs ends_in_a_number: the last part of the host is a number
ends_in_a_number(domain) == LastIsNumber(Ipv4Parts(domain))

RECURSIVE NatStr(_)
\* the decimal digits of a natural number
NatStr(n) ==
    IF n < 10 THEN Ch("0123456789", n + 1)
    ELSE NatStr(n \div 10) \o Ch("0123456789", (n % 10) + 1)

\* the address made of up to four numbers: each but the last is one byte,
\* the last fills the bytes the others leave; v is the dotted form
\* Ipv4Addr is displayed in
Ipv4OfNumbers(nums, k) ==
    IF \E i \in 1..(k + 1) : ~nums[i].ok \/ nums[i].n.over
    THEN [ok |-> FALSE, v |-> ""]
    ELSE IF \E j \in 1..k : nums[k + 1].n.b[j] # 0
    THEN [ok |-> FALSE, v |-> ""]
    ELSE IF \E i \in 1..k : \E j \in 1..3 : nums[i].n.b[j] # 0
    THEN [ok |-> FALSE, v |-> ""]
    ELSE LET byte(j) == IF j <= k THEN nums[j].n.b[4] ELSE nums[k + 1].n.b[j]
         IN  [ok |-> TRUE,
              v |-> NatStr(byte(1)) \o "." \o NatStr(byte(2)) \o "."
                    \o NatStr(byte(3)) \o "." \o NatStr(byte(4))]

Ipv4OfParts(parts) ==
    IF Len(parts) > 4 \/ parts = <<>> THEN [ok |-> FALSE, v |-> ""]
    ELSE Ipv4OfNumbers([i \in 1..Len(parts) |-> parse_ipv4number(parts[i])],
                       Len(parts) - 1)

\* host.rs parse_ipv4addr
parse_ipv4addr(domain) == Ipv4OfParts(Ipv4Parts(domain))

\* the domain, or the IPv4 address it denotes when its last part is a number
DomainOrIpv4(domain) ==
    IF ends_in_a_number(domain) THEN parse_ipv4addr(domain)
    ELSE [ok |-> TRUE, v |-> domain]

\* Host::parse of a special scheme's host, after conversion to lower case
Host_parse(hostStr) ==
    IF \E i \in 1..Len(hostStr) : Ch(hostStr, i) \notin HostChars
    THEN [ok |-> FALSE, v |-> ""]
    ELSE DomainOrIpv4(to_ascii_lowercase(hostStr))

\* Host::parse_opaque of any other scheme's host: kept as written
parse_opaque(hostStr) ==
    [ok |-> \A i \in 1..Len(hostStr) : Ch(hostStr, i) \in HostChars,
     v |-> hostStr]

RECURSIVE parse_port(_, _)
\* parser.rs parse_port: decimal digits up to the end of the authority, no
\* value above u16::MAX; TRUE when the port is accepted
parse_port(s, port) ==
    IF s = "" THEN TRUE
    ELSE IF Ch(s, 1) \notin Digits THEN FALSE
    ELSE LET p == port * 10 + DigitVal(Ch(s, 1))
         IN  p <= 65535 /\ parse_port(From(s, 2), p)

\* the parsed url once its host is known; an empty host is no host
UrlWithHost(host, special, path) ==
    IF ~host.ok THEN UrlErr
    ELSE [ok |-> TRUE,
          host |-> IF host.v = "" THEN NoStr ELSE Some(host.v),
          segs |-> IF path = ""
                   THEN (IF special THEN Some(<<"">>) ELSE NoSeq)
                   ELSE Some(PathSegs(path))]

\* host and port of an authority: a special scheme needs a host, and so
\* does a port
HostAndPort(authority, hEnd, special, path) ==
    IF hEnd = 1 /\ (special \/ hEnd <= Len(authority)) THEN UrlErr
    ELSE IF hEnd <= Len(authority) /\ ~parse_port(From(authority, hEnd + 1), 0)
    THEN UrlErr
    ELSE UrlWithHost(IF special THEN Host_parse(Upto(authority, hEnd - 1))
                     ELSE parse_opaque(Upto(authority, hEnd - 1)),
                     special, path)

\* authority and path of what follows the slashes
Authority(authority, special, path) ==
    HostAndPort(authority, FirstIn(authority, {":"}), special, path)

\* authority, host, port and path states, entered after the slashes
AfterDoubleSlash(r, special) ==
    Authority(Upto(r, FirstIn(r, {"/"}) - 1), special, From(r, FirstIn(r, {"/"})))

\* Url::parse(s), with host_str() and path_segments() of the result
Url_parse(s) ==
    LET t == Trim(s)
        e == SchemeEnd(t)
        scheme == to_ascii_lowercase(Upto(t, e - 1))
        rest == From(t, e + 1)
    IN  IF e = 0 THEN UrlErr
        ELSE IF scheme \in SpecialSchemes
        THEN AfterDoubleSlash(From(rest, FirstNotIn(rest, {"/"})), TRUE)
        ELSE IF starts_with(rest, "//")
        THEN AfterDoubleSlash(From(rest, 3), FALSE)
        ELSE IF starts_with(rest, "/")
        THEN [ok |-> TRUE, host |-> NoStr, segs |-> Some(PathSegs(rest))]
        ELSE [ok |-> TRUE, host |-> NoStr, segs |-> NoSeq]

(***************************************************************************)
(* The name helpers (lib.rs lines 6-40).                                   *)
(***************************************************************************)
JUST_PREFIX == "just-"

\* mutant: the prefix is prepended without looking at the name
prepend_just_prefix_Always(name) == JUST_PREFIX \o name

prepend_just_prefix(name) ==
    IF starts_with(name, JUST_PREFIX) THEN name ELSE JUST_PREFIX \o name

is_github_url(u) == u.host = Some("github.com")

\* the error values of get_repository_name
ErrParse == "url::ParseError"
ErrProvider == "Currently, only github.com is supported for just components"
ErrNoName == "No repository name in segments"
ErrNoSegments == "Invalid URL"

Ok(x) == [ok |-> TRUE, val |-> x]
Err(e) == [ok |-> FALSE, val |-> e]

\* mutant: the last segment is taken instead of the second
SkipTake_Last(segments) ==
    IF Len(segments) >= 2 THEN <<segments[Len(segments)]>> ELSE <<>>

\* segments.skip(1).take(1).collect()
SkipTake(segments) ==
    IF Len(segments) >= 2 THEN <<segments[2]>> ELSE <<>>

\* mutant: the segments are looked at before the host
get_repository_name_SegmentsFirst(s) ==
    LET u == Url_parse(s)
    IN  IF ~u.ok THEN Err(ErrParse)
        ELSE IF u.segs.some /\ SkipTake(u.segs.v) = <<>> THEN Err(ErrNoName)
        ELSE IF ~is_github_url(u) THEN Err(ErrProvider)
        ELSE IF u.segs.some THEN Ok(SkipTake(u.segs.v)[1])
        ELSE Err(ErrNoSegments)

get_repository_name(s) ==
    LET u == Url_parse(s)
    IN  IF ~u.ok THEN Err(ErrParse)
        ELSE IF ~is_github_url(u) THEN Err(ErrProvider)
        ELSE IF u.segs.some
        THEN LET vec == SkipTake(u.segs.v)
             IN  IF vec # <<>> THEN Ok(vec[1]) ELSE Err(ErrNoName)
        ELSE Err(ErrNoSegments)

(***************************************************************************)
(* The file system.                                                        *)
(*                                                                         *)
(* bin maps each path below Folder.bin_path (a sequence of file names) to  *)
(* its entry; a file's data names the build it was copied from.  cwd maps  *)
(* each child directory of the current directory to what it holds: a       *)
(* complete clone ("src"), a clone with target/release built ("built"),    *)
(* a part of a tree, as an interrupted removal or checkout leaves it       *)
(* ("partial"), or nothing ("empty").  The binary directory is taken to    *)
(* lie outside the current directory.  outside maps the absolute path of   *)
(* every other entry of the file system to its entry.  The file system     *)
(* holds no symbolic links.                                                *)
(***************************************************************************)
EmptyMap == [x \in {} |-> 0]
Put(f, k, e) == [x \in DOMAIN f \cup {k} |-> IF x = k THEN e ELSE f[x]]
Drop(f, k) == [x \in DOMAIN f \ {k} |-> f[x]]

File(d) == [kind |-> "file", data |-> d]
Dir == [kind |-> "dir", data |-> ""]
\* what an interrupted std::fs::copy leaves at the destination
PartialData == "<partial write>"

NoPath == [some |-> FALSE, v |-> <<>>]

\* the last component of Folder.bin_path
BIN_DIR_NAME == "bin"

(***************************************************************************)
(* Extension: assemble_path, get_path_of, is_installed, list.              *)
(***************************************************************************)
\* the path bin_path.join(exe_name) as its components below bin_path: the
\* pieces of exe_name between its separators.  exe_name begins with "just-",
\* so it is never an absolute path that would replace bin_path.
JoinedPath(name, sfx) == Split(prepend_just_prefix(name) \o sfx, "/")

\* Where the two directories lie in the file system, as absolute paths from
\* the root <<>>: Folder.bin_path, and the current directory of the process.
BinPath == <<"p", BIN_DIR_NAME>>
CwdPath == <<"w">>

IsPrefix(a, b) == Len(a) <= Len(b) /\ SubSeq(b, 1, Len(a)) = a
Below(a, b) == SubSeq(b, Len(a) + 1, Len(b))
Parent(at) == SubSeq(at, 1, Len(at) - 1)

\* what lies at an absolute path: "dir", "file" or "none".  The root and the
\* ancestors of the two directories are directories; below bin_path lies the
\* tree `bin`; the current directory holds the directories of `cwd`; every
\* other entry of the file system is one of `outside`.
KindAt(at) ==
    IF IsPrefix(at, BinPath) THEN "dir"
    ELSE IF IsPrefix(BinPath, at)
    THEN (IF Below(BinPath, at) \in DOMAIN bin
          THEN bin[Below(BinPath, at)].kind ELSE "none")
    ELSE IF IsPrefix(at, CwdPath)
    THEN (IF at = CwdPath /\ ~cwd_exists THEN "none" ELSE "dir")
    ELSE IF IsPrefix(CwdPath, at)
    THEN (IF cwd_exists /\ Len(at) = Len(CwdPath) + 1
             /\ at[Len(at)] \in DOMAIN cwd
          THEN "dir" ELSE "none")
    ELSE IF at \in DOMAIN outside THEN outside[at].kind
    ELSE "none"

\* a directory git clone made in the current directory
IsCloneDir(at) ==
    /\ Len(at) = Len(CwdPath) + 1
    /\ IsPrefix(CwdPath, at)
    /\ KindAt(at) = "dir"

\* A place a path has led to: the entry at the absolute path `at`, or, for
\* deep > 0, an entry that many levels inside the clone directory `at`.  The
\* state does not record what a clone holds, so whether such an entry is
\* there is not known: `sure` is FALSE once the path has gone through one.
Place(at, deep, sure) == [at |-> at, deep |-> deep, sure |-> sure]
Start == Place(BinPath, 0, TRUE)
NoPlace == [some |-> FALSE, v |-> Start]

\* a named component looked up in the clone directory pl.at
StepIntoClone(pl) ==
    IF cwd[pl.at[Len(pl.at)]].st = "empty" THEN NoPlace
    ELSE Some(Place(pl.at, 1, FALSE))

\* a named component looked up in the directory pl.at
StepDown(pl, c) ==
    IF KindAt(Append(pl.at, c)) = "none" THEN NoPlace
    ELSE Some(Place(Append(pl.at, c), 0, pl.sure))

\* ".." leads to the parent, and at the root to the root itself
StepUp(pl) ==
    IF pl.deep > 0 THEN Place(pl.at, pl.deep - 1, FALSE)
    ELSE IF pl.at = <<>> THEN pl
    ELSE Place(Parent(pl.at), 0, pl.sure)

\* one component of a path, looked up in the directory pl
StepTo(pl, c) ==
    IF c \in {"", "."} THEN Some(pl)
    ELSE IF c = ".." THEN Some(StepUp(pl))
    ELSE IF pl.deep > 0 THEN Some(Place(pl.at, pl.deep + 1, FALSE))
    ELSE IF IsCloneDir(pl.at) THEN StepIntoClone(pl)
    ELSE StepDown(pl, c)

RECURSIVE Walk(_, _)
WalkOn(step, rest) ==
    IF step.some THEN Walk(step.v, rest) ELSE NoPlace

\* path resolution as the operating system does it: every component but
\* the last must lead to a directory, and so must a component that is
\* followed by a separator
Walk(pl, rest) ==
    IF rest = <<>> THEN Some(pl)
    ELSE IF pl.deep = 0 /\ KindAt(pl.at) # "dir" THEN NoPlace
    ELSE WalkOn(StepTo(pl, Head(rest)), Tail(rest))

\* What the file system can hold at the end of a path: nothing, or an entry
\* of a kind; `inside` marks an entry inside the clone directory `at`.
Absent == [some |-> FALSE, kind |-> "none", at |-> <<>>, inside |-> FALSE]
Found(kind, at, inside) ==
    [some |-> TRUE, kind |-> kind, at |-> at, inside |-> inside]

ResolutionsOf(w) ==
    IF ~w.some THEN {Absent}
    ELSE IF w.v.deep > 0
    THEN {Absent, Found("file", w.v.at, TRUE), Found("dir", w.v.at, TRUE)}
    ELSE IF w.v.sure THEN {Found(KindAt(w.v.at), w.v.at, FALSE)}
    ELSE {Absent, Found(KindAt(w.v.at), w.v.at, FALSE)}

\* the entries the path bin_path.join(path) can lead to in this state: one,
\* unless the path goes through a clone directory
Resolutions(path) == ResolutionsOf(Walk(Start, path))

\* Path::exists of bin_path.join(path): the answers it can give
exists(path) == {o.some : o \in Resolutions(path)}


\* the file names WalkDir yields: the root itself, then every entry below it
WalkNames(tree) == <<BIN_DIR_NAME>> \o
    LET RECURSIVE Names(_)
        Names(ps) ==
            IF ps = {} THEN <<>>
            ELSE LET p == CHOOSE q \in ps : TRUE
                 IN  <<p[Len(p)]>> \o Names(ps \ {p})
    IN  Names(DOMAIN tree)

\* the closure of list's filter_map
ListFilter(filename) ==
    ends_with(filename, exe_suffix) /\ starts_with(filename, JUST_PREFIX)

\* list(): the collected Vec<String> as a bag (name -> number of occurrences);
\* the order of a directory walk is not modelled
list(tree) ==
    LET w == WalkNames(tree)
        kept == {w[i] : i \in {j \in 1..Len(w) : ListFilter(w[j])}}
    IN  [n \in kept |-> Cardinality({i \in 1..Len(w) : w[i] = n})]

(***************************************************************************)
(* The collaborators of install.                                           *)
(***************************************************************************)
\* the index at which sub first occurs in s, or 0
FindSub(s, sub) ==
    IF \E i \in 1..(Len(s) - Len(sub) + 1) : SubSeq(s, i, i + Len(sub) - 1) = sub
    THEN CHOOSE i \in 1..(Len(s) - Len(sub) + 1) :
            /\ SubSeq(s, i, i + Len(sub) - 1) = sub
            /\ \A j \in 1..(i - 1) : SubSeq(s, j, j + Len(sub) - 1) # sub
    ELSE 0

RECURSIVE CollapseSpaces(_, _)
\* runs of white space become one space and leading white space is dropped
CollapseSpaces(s, prev_space) ==
    IF s = "" THEN ""
    ELSE IF Ch(s, 1) = " "
    THEN (IF prev_space THEN "" ELSE " ") \o CollapseSpaces(From(s, 2), TRUE)
    ELSE Ch(s, 1) \o CollapseSpaces(From(s, 2), FALSE)

\* git_url_basename, step by step.  The scheme is skipped
SkipScheme(u, k) == IF k = 0 THEN u ELSE From(u, k + 3)

\* trailing slashes and spaces are dropped
StripTrailing(s) == Upto(s, LastNotIn(s, {"/", " "}))

StripSlashes(s) == Upto(s, LastNotIn(s, {"/"}))

\* a trailing "/.git" is dropped, with the slashes before it
StripDotGitDir(s) ==
    IF Len(s) > 5 /\ ends_with(s, "/.git")
    THEN StripSlashes(Upto(s, Len(s) - 5))
    ELSE s

\* a trailing ":<digits>" is dropped when only a host name is left; p is
\* the index of the last character that is not a digit
StripPortAt(s, p) ==
    IF FirstIn(s, {"/"}) > Len(s) /\ p >= 1 /\ Ch(s, p) = ":"
    THEN Upto(s, p - 1)
    ELSE s

StripPort(s) == StripPortAt(s, LastNotIn(s, Digits))

\* the last component, after a slash or a colon
LastComponent(s) == From(s, LastIn(s, {"/", ":"}) + 1)

StripDotGit(c) == IF ends_with(c, ".git") THEN Upto(c, Len(c) - 4) ELSE c

StripLastSpace(d) == IF ends_with(d, " ") THEN Upto(d, Len(d) - 1) ELSE d

\* `git clone <url>` without a directory argument clones into the directory
\* git derives from the url (git_url_basename): after the scheme, trailing
\* slashes and spaces, a trailing "/.git" and, when no slash is left, a
\* trailing ":<port>" are dropped; of the rest the last component after a
\* slash or a colon is taken, without a ".git" suffix, its white space
\* collapsed and trimmed
GitDirName(u) ==
    StripLastSpace(CollapseSpaces(StripDotGit(LastComponent(StripPort(
        StripDotGitDir(StripTrailing(SkipScheme(u, FindSub(u, "://"))))))), TRUE))

\* current_dir().join(&repo): the child of the current directory it names,
\* and the current directory itself when repo is empty
IsCwdItself(r) == r = ""
PathExists(r) == cwd_exists /\ (IsCwdItself(r) \/ r \in DOMAIN cwd)

\* remove_dir_all(&repo_path) succeeding
RemoveDirAll(r) ==
    IF IsCwdItself(r)
    THEN cwd' = EmptyMap /\ cwd_exists' = FALSE
    ELSE cwd' = Drop(cwd, r) /\ UNCHANGED cwd_exists

\* what is left of a directory whose removal stopped half way
Leftovers == {"partial", "empty"}

\* remove_dir_all(&repo_path) failing: the directory itself is still there;
\* of what it held nothing, a part or everything was removed.  For the
\* current directory that is any set of its children, and one more child
\* in which the removal stopped.
RemoveDirAllFails(r) ==
    /\ UNCHANGED cwd_exists
    /\ IF IsCwdItself(r)
       THEN \E gone \in SUBSET DOMAIN cwd :
              LET rest == [x \in DOMAIN cwd \ gone |-> cwd[x]]
              IN  \/ cwd' = rest
                  \/ \E x \in DOMAIN rest : \E st \in Leftovers :
                        cwd' = Put(rest, x, [st |-> st, from |-> cwd[x].from])
       ELSE \/ UNCHANGED cwd
            \/ /\ r \in DOMAIN cwd
               /\ \E st \in Leftovers :
                     cwd' = Put(cwd, r, [st |-> st, from |-> cwd[r].from])

IoError == "io::Error"
FetchFailed == "git clone: duct error"
BuildFailed == "cargo build: duct error"
Unit == "()"
Pending == "<running>"
Panicked == "<panic>"

Stage(n, ok) == [name |-> n, ok |-> ok]
Returned(op, arg, res) == [op |-> op, arg |-> arg, res |-> res]

(***************************************************************************)
(* The inputs of the operations.                                           *)
(***************************************************************************)
\* the urls install is called with
InstallUrls == {
    "https://github.com/o/r",
    "https://github.com/o/just-r",
    "https://github.com/o/r.git",
    "https://github.com/o/",
    "https://github.com/o",
    "https://gitlab.com/o/r",
    "not a url" }

\* get_repository_name and git's directory name on those urls, computed once
RepoOf == [u \in InstallUrls |-> get_repository_name(u)]
CloneDirOf == [u \in InstallUrls |-> GitDirName(u)]

\* std::env::consts::EXE_SUFFIX of the platforms
Suffixes == {"", ".exe"}

\* the names is_installed and uninstall are called with
\* (plain, with a trailing separator, and leading out of bin_path: to a file
\* beside it, back into it from the root, and into a clone directory)
Names == {"r", "just-r", "r/", "just-r/../../sibling",
          "just-r/../../../../p/bin/just-r/x", "just-r/../../../w/r/x"}

\* repository names with and without the prefix, for assemble_path alone
RepoNames == {"", "r", "s", "-just-r", "just-r", "just-just-r"}

\* the joined paths of those names, computed once
PathOf ==
    [sfx \in Suffixes |->
        [n \in Names \cup RepoNames \cup {JUST_PREFIX \o r : r \in RepoNames}
            |-> JoinedPath(n, sfx)]]

assemble_path(name) ==
    IF name \in DOMAIN PathOf[exe_suffix] THEN PathOf[exe_suffix][name]
    ELSE JoinedPath(name, exe_suffix)

\* lines 60-67: the results the call can have in this state
get_path_of(name) ==
    {IF e THEN Some(assemble_path(name)) ELSE NoPath :
        e \in exists(assemble_path(name))}

\* lines 69-71: the answers the call can give in this state
is_installed(name) == {path.some : path \in get_path_of(name)}

\* the name is installed, and is not, whatever the clone directories hold
Installed(name) == is_installed(name) = {TRUE}
NotInstalled(name) == is_installed(name) = {FALSE}

(***************************************************************************)
(* install (lines 73-112), one action per stage.  The caller is blocked    *)
(* for the whole call: no other operation runs until install returns.      *)
(***************************************************************************)
\* mutant: the error of get_repository_name is replaced by an empty name
\* (unwrap_or_default instead of `?`)
InstallResolve_IgnoreError ==
    /\ pc = "idle"
    /\ \E u \in InstallUrls :
         LET r == RepoOf[u]
         IN  /\ removed' = {}
             /\ url' = u
             /\ stages' = <<Stage("resolve", TRUE)>>
             /\ repo' = (IF r.ok THEN r.val ELSE "")
             /\ IF cwd_exists
                THEN /\ pc' = "clean"
                     /\ ret' = Returned("install", u, Pending)
                ELSE /\ pc' = "aborted"
                     /\ ret' = Returned("install", u, Panicked)
    /\ UNCHANGED <<exe_suffix, cwd_utf8, outside, bin, cwd, cwd_exists>>

\* line 81: get_repository_name(url)?, and line 82: current_dir().expect(..)
InstallResolve ==
    /\ pc = "idle"
    /\ \E u \in InstallUrls :
         LET r == RepoOf[u]
         IN  /\ removed' = {}
             /\ url' = u
             /\ IF ~r.ok
                THEN /\ stages' = <<Stage("resolve", FALSE)>>
                     /\ ret' = Returned("install", u, Err(r.val))
                     /\ UNCHANGED <<pc, repo>>
                ELSE /\ stages' = <<Stage("resolve", TRUE)>>
                     /\ repo' = r.val
                     /\ IF cwd_exists
                        THEN /\ pc' = "clean"
                             /\ ret' = Returned("install", u, Pending)
                        ELSE /\ pc' = "aborted"
                             /\ ret' = Returned("install", u, Panicked)
    /\ UNCHANGED <<exe_suffix, cwd_utf8, outside, bin, cwd, cwd_exists>>

\* mutant: the clean stage also removes the binary installed earlier
InstallClean_RemovesBinary ==
    /\ pc = "clean"
    /\ bin' = Drop(bin, assemble_path(repo))
    /\ IF PathExists(repo)
       THEN /\ RemoveDirAll(repo)
            /\ removed' = removed \cup {repo}
       ELSE UNCHANGED <<cwd, cwd_exists, removed>>
    /\ stages' = Append(stages, Stage("clean", TRUE))
    /\ pc' = "fetch"
    /\ UNCHANGED <<exe_suffix, cwd_utf8, outside, url, repo, ret>>

\* mutant: the stale working directory is left in place
InstallClean_Skip ==
    /\ pc = "clean"
    /\ stages' = Append(stages, Stage("clean", TRUE))
    /\ pc' = "fetch"
    /\ UNCHANGED <<exe_suffix, cwd_utf8, outside, bin, cwd, cwd_exists, url, repo, ret, removed>>

\* lines 85-88: if repo_path.exists() { remove_dir_all(&repo_path)?; }
InstallClean ==
    /\ pc = "clean"
    /\ IF PathExists(repo)
       THEN \/ /\ RemoveDirAll(repo)
               /\ removed' = removed \cup {repo}
               /\ stages' = Append(stages, Stage("clean", TRUE))
               /\ pc' = "fetch"
               /\ UNCHANGED ret
            \/ /\ RemoveDirAllFails(repo)
               /\ removed' = removed \cup {repo}
               /\ stages' = Append(stages, Stage("clean", FALSE))
               /\ pc' = "idle"
               /\ ret' = Returned("install", url, Err(IoError))
       ELSE /\ stages' = Append(stages, Stage("clean", TRUE))
            /\ pc' = "fetch"
            /\ UNCHANGED <<cwd, cwd_exists, removed, ret>>
    /\ UNCHANGED <<exe_suffix, cwd_utf8, outside, bin, url, repo>>

\* line 91: cmd("git", &["clone", &url]).run()?  git clones into a directory
\* that does not exist yet or is empty.  When git exits with an error it has
\* removed what it created, unless the error came after the clone was
\* complete (a failing hook) or during the checkout.
InstallFetch ==
    /\ pc = "fetch"
    /\ LET dir == CloneDirOf[url]
           can_clone == /\ cwd_exists
                        /\ dir \notin {"", ".", ".."}
                        /\ IF dir \in DOMAIN cwd THEN cwd[dir].st = "empty" ELSE TRUE
       IN  \/ /\ can_clone
              /\ cwd' = Put(cwd, dir, [st |-> "src", from |-> url])
              /\ stages' = Append(stages, Stage("fetch", TRUE))
              /\ pc' = "build"
              /\ UNCHANGED ret
           \/ /\ stages' = Append(stages, Stage("fetch", FALSE))
              /\ pc' = "idle"
              /\ ret' = Returned("install", url, Err(FetchFailed))
              /\ \/ UNCHANGED cwd
                 \/ /\ can_clone
                    /\ \E st \in {"src", "partial"} :
                          cwd' = Put(cwd, dir, [st |-> st, from |-> url])
    /\ UNCHANGED <<exe_suffix, cwd_utf8, outside, bin, cwd_exists, url, repo, removed>>

\* lines 93-102: cargo build --release --manifest-path <repo_path>/Cargo.toml;
\* line 99, cargo_path.to_str().expect(..), panics before cargo is started
\* when the path of the current directory is not valid UTF-8
InstallBuild ==
    /\ pc = "build"
    /\ IF ~cwd_utf8
       THEN /\ pc' = "aborted"
            /\ ret' = Returned("install", url, Panicked)
            /\ UNCHANGED <<cwd, stages>>
       ELSE \/ /\ repo \in DOMAIN cwd
               /\ cwd[repo].st \in {"src", "built"}
               /\ cwd' = Put(cwd, repo, [st |-> "built", from |-> cwd[repo].from])
               /\ stages' = Append(stages, Stage("build", TRUE))
               /\ pc' = "copy"
               /\ UNCHANGED ret
            \/ /\ stages' = Append(stages, Stage("build", FALSE))
               /\ pc' = "idle"
               /\ ret' = Returned("install", url, Err(BuildFailed))
               /\ UNCHANGED cwd
    /\ UNCHANGED <<exe_suffix, cwd_utf8, outside, bin, cwd_exists, url, repo, removed>>

\* lines 104-110: copy(&target_path, &bin_path)?
InstallCopy ==
    /\ pc = "copy"
    /\ LET bin_path == assemble_path(repo)
           isDir == bin_path \in DOMAIN bin /\ bin[bin_path].kind = "dir"
       IN  \/ /\ ~isDir
              /\ repo \in DOMAIN cwd /\ cwd[repo].st = "built"
              /\ bin' = Put(bin, bin_path, File(cwd[repo].from))
              /\ stages' = Append(stages, Stage("copy", TRUE))
              /\ pc' = "cleanup"
              /\ UNCHANGED ret
           \/ /\ \/ UNCHANGED bin
                 \/ /\ ~isDir
                    /\ bin' = Put(bin, bin_path, File(PartialData))
              /\ stages' = Append(stages, Stage("copy", FALSE))
              /\ pc' = "idle"
              /\ ret' = Returned("install", url, Err(IoError))
    /\ UNCHANGED <<exe_suffix, cwd_utf8, outside, cwd, cwd_exists, url, repo, removed>>

\* mutant: the result of the final removal is dropped, install returns Ok(())
InstallCleanup_Swallow ==
    /\ pc = "cleanup"
    /\ \/ /\ PathExists(repo)
          /\ RemoveDirAll(repo)
          /\ stages' = Append(stages, Stage("cleanup", TRUE))
       \/ /\ RemoveDirAllFails(repo)
          /\ stages' = Append(stages, Stage("cleanup", FALSE))
    /\ ret' = Returned("install", url, Ok(Unit))
    /\ removed' = removed \cup {repo}
    /\ pc' = "idle"
    /\ UNCHANGED <<exe_suffix, cwd_utf8, outside, bin, url, repo>>

\* line 111: remove_dir_all(&repo_path).map_err(|e| e.into())
InstallCleanup ==
    /\ pc = "cleanup"
    /\ \/ /\ PathExists(repo)
          /\ RemoveDirAll(repo)
          /\ stages' = Append(stages, Stage("cleanup", TRUE))
          /\ ret' = Returned("install", url, Ok(Unit))
       \/ /\ RemoveDirAllFails(repo)
          /\ stages' = Append(stages, Stage("cleanup", FALSE))
          /\ ret' = Returned("install", url, Err(IoError))
    /\ removed' = removed \cup {repo}
    /\ pc' = "idle"
    /\ UNCHANGED <<exe_suffix, cwd_utf8, outside, bin, url, repo>>

(***************************************************************************)
(* uninstall (lines 114-122), is_installed (69-71), list (124-146).        *)
(***************************************************************************)
\* remove_file (line 119) of an entry found: a file of the binary directory,
\* a file beside it, or a file inside a clone directory, which is then
\* whole as before or a part of what it was
RemoveFile(o) ==
    IF o.inside
    THEN /\ \/ UNCHANGED cwd
            \/ \E st \in Leftovers :
                 cwd' = Put(cwd, o.at[Len(o.at)],
                            [st |-> st, from |-> cwd[o.at[Len(o.at)]].from])
         /\ UNCHANGED <<bin, outside>>
    ELSE IF IsPrefix(BinPath, o.at)
    THEN /\ bin' = Drop(bin, Below(BinPath, o.at))
         /\ UNCHANGED <<outside, cwd>>
    ELSE /\ outside' = Drop(outside, o.at)
         /\ UNCHANGED <<bin, cwd>>

\* mutant: the file is removed together with its whole directory
Uninstall_RemovesAll ==
    /\ pc = "idle"
    /\ \E n \in Names : \E o \in Resolutions(assemble_path(n)) :
         IF o.some
         THEN \/ /\ o.kind = "file"
                 /\ bin' = EmptyMap
                 /\ UNCHANGED <<outside, cwd>>
                 /\ ret' = Returned("uninstall", n, Ok(Unit))
              \/ /\ UNCHANGED <<bin, outside, cwd>>
                 /\ ret' = Returned("uninstall", n, Err(IoError))
         ELSE /\ UNCHANGED <<bin, outside, cwd>>
              /\ ret' = Returned("uninstall", n, Ok(Unit))
    /\ UNCHANGED <<exe_suffix, cwd_utf8, cwd_exists, pc, url, repo, stages, removed>>

\* mutant: success is reported without the file being removed
Uninstall_NoRemove ==
    /\ pc = "idle"
    /\ \E n \in Names : ret' = Returned("uninstall", n, Ok(Unit))
    /\ UNCHANGED <<exe_suffix, cwd_utf8, bin, outside, cwd, cwd_exists, pc, url, repo, stages, removed>>

\* mutant: a name that is not installed is reported as an error
Uninstall_ErrWhenAbsent ==
    /\ pc = "idle"
    /\ \E n \in Names : \E o \in Resolutions(assemble_path(n)) :
         IF o.kind = "file"
         THEN /\ RemoveFile(o)
              /\ ret' = Returned("uninstall", n, Ok(Unit))
         ELSE /\ UNCHANGED <<bin, outside, cwd>>
              /\ ret' = Returned("uninstall", n, Err(IoError))
    /\ UNCHANGED <<exe_suffix, cwd_utf8, cwd_exists, pc, url, repo, stages, removed>>

\* lines 114-122: remove_file unlinks a file and fails on a directory
Uninstall ==
    /\ pc = "idle"
    /\ \E n \in Names : \E o \in Resolutions(assemble_path(n)) :
         IF o.some
         THEN \/ /\ o.kind = "file"
                 /\ RemoveFile(o)
                 /\ ret' = Returned("uninstall", n, Ok(Unit))
              \/ /\ UNCHANGED <<bin, outside, cwd>>
                 /\ ret' = Returned("uninstall", n, Err(IoError))
         ELSE /\ UNCHANGED <<bin, outside, cwd>>
              /\ ret' = Returned("uninstall", n, Ok(Unit))
    /\ UNCHANGED <<exe_suffix, cwd_utf8, cwd_exists, pc, url, repo, stages, removed>>

IsInstalled ==
    /\ pc = "idle"
    /\ \E n \in Names : \E answer \in is_installed(n) :
         ret' = Returned("is_installed", n, answer)
    /\ UNCHANGED <<exe_suffix, cwd_utf8, bin, outside, cwd, cwd_exists, pc, url, repo, stages, removed>>

List ==
    /\ pc = "idle"
    /\ ret' = Returned("list", "", list(bin))
    /\ UNCHANGED <<exe_suffix, cwd_utf8, outside, bin, cwd, cwd_exists, pc, url, repo, stages, removed>>

(***************************************************************************)
(* The specification of the extension manager.                             *)
(***************************************************************************)
\* the binary directories a run starts from
InitBins(sfx) == {
    EmptyMap,
    Put(Put(EmptyMap, <<"just-r" \o sfx>>, Dir),
        <<"just-r" \o sfx, "x" \o sfx>>, File("old")),
    Put(Put(Put(EmptyMap, <<"readme">>, File("readme")), <<"sub">>, Dir),
        <<"sub", "just-s" \o sfx>>, File("old")) }

\* what lies beside the binary directory when a run starts
InitOutside == Put(EmptyMap, <<"p", "sibling">>, File("other"))

Init ==
    /\ exe_suffix \in Suffixes
    /\ cwd_utf8 \in BOOLEAN
    /\ bin \in (IF cwd_utf8 /\ exe_suffix = "" THEN InitBins(exe_suffix)
               ELSE {EmptyMap})
    /\ outside = InitOutside
    /\ cwd = EmptyMap
    /\ cwd_exists = TRUE
    /\ pc = "idle"
    /\ url = ""
    /\ repo = ""
    /\ ret = Returned("none", "", Unit)
    /\ stages = <<>>
    /\ removed = {}

Next ==
    \/ InstallResolve
    \/ InstallClean
    \/ InstallFetch
    \/ InstallBuild
    \/ InstallCopy
    \/ InstallCleanup
    \/ Uninstall
    \/ IsInstalled
    \/ List

Spec == Init /\ [][Next]_vars

(***************************************************************************)
(* get_repository_name as a pure function: a specification that draws the  *)
(* url string from a bounded family and applies the function to it.        *)
(***************************************************************************)
UrlPrefixes == {"https://", "http://", "https:", "git://", "", " https://"}
UrlHosts == {"github.com", "gitlab.com", "GitHub.com", "", "github.com:443",
             "git hub.com", "github.com.1", "1.2.3"}
UrlSegs == {"", "o", "r", "just-r", "r.git", ".."}

RECURSIVE UrlPaths(_)
\* the paths of exactly n segments, each written after a '/'
UrlPaths(n) ==
    IF n = 0 THEN {""}
    ELSE {p \o "/" \o sg : p \in UrlPaths(n - 1), sg \in UrlSegs}

Urls ==
    {"not a url"} \cup
    {pre \o h \o p : pre \in UrlPrefixes, h \in UrlHosts,
                     p \in UNION {UrlPaths(n) : n \in 0..MaxSegs}}

InitParse ==
    /\ url \in Urls
    /\ pc = "arg"
    /\ exe_suffix = ""
    /\ cwd_utf8 = TRUE
    /\ bin = EmptyMap
    /\ outside = EmptyMap
    /\ cwd = EmptyMap
    /\ cwd_exists = TRUE
    /\ repo = ""
    /\ ret = Returned("none", "", Unit)
    /\ stages = <<>>
    /\ removed = {}

GetRepositoryName ==
    /\ pc = "arg"
    /\ ret' = Returned("get_repository_name", url, get_repository_name(url))
    /\ pc' = "done"
    /\ UNCHANGED <<exe_suffix, cwd_utf8, outside, bin, cwd, cwd_exists, url, repo, stages, removed>>

NextParse == GetRepositoryName

SpecParse == InitParse /\ [][NextParse]_vars

(***************************************************************************)
(* prepend_just_prefix as a pure function: a specification that draws the  *)
(* name from a bounded family and applies the function to it twice.        *)
(***************************************************************************)
\* the longest enumerated name, in pieces
MaxNameParts == 3

NamePieces == {"just-", "just", "-", "r"}

RECURSIVE NamesOf(_)
\* the names made of exactly n pieces
NamesOf(n) ==
    IF n = 0 THEN {""}
    ELSE {p \o q : p \in NamesOf(n - 1), q \in NamePieces}

NameInputs == UNION {NamesOf(n) : n \in 0..MaxNameParts}

InitName ==
    /\ url \in NameInputs
    /\ pc = "name"
    /\ exe_suffix = ""
    /\ cwd_utf8 = TRUE
    /\ bin = EmptyMap
    /\ outside = EmptyMap
    /\ cwd = EmptyMap
    /\ cwd_exists = TRUE
    /\ repo = ""
    /\ ret = Returned("none", "", Unit)
    /\ stages = <<>>
    /\ removed = {}

\* prepend_just_prefix(name)
PrependJustPrefix ==
    /\ pc = "name"
    /\ ret' = Returned("prepend_just_prefix", url, prepend_just_prefix(url))
    /\ pc' = "once"
    /\ UNCHANGED <<exe_suffix, cwd_utf8, outside, bin, cwd, cwd_exists, url, repo, stages, removed>>

\* prepend_just_prefix applied to its own result
PrependJustPrefixAgain ==
    /\ pc = "once"
    /\ ret' = Returned("prepend_just_prefix", ret.res, prepend_just_prefix(ret.res))
    /\ pc' = "twice"
    /\ UNCHANGED <<exe_suffix, cwd_utf8, outside, bin, cwd, cwd_exists, url, repo, stages, removed>>

NextName ==
    \/ PrependJustPrefix
    \/ PrependJustPrefixAgain

SpecName == InitName /\ [][NextName]_vars

(***************************************************************************)
(* list as a function of the binary directory: a specification that draws  *)
(* the directory tree from a bounded family and lists it.                  *)
(***************************************************************************)
ListNames == {"just-foo", "just-foo.exe", "bar.exe"}
EntryKinds == {"none", "file", "dir"}

\* the entries one directory level holds under an assignment of kinds
LevelOf(a) ==
    [p \in {<<n>> : n \in {m \in ListNames : a[m] # "none"}} |->
        IF a[p[1]] = "dir" THEN Dir ELSE File(p[1])]

\* tree t placed below the directory "sub"
Nest(t) ==
    [p \in {<<"sub">>} \cup {<<"sub">> \o q : q \in DOMAIN t} |->
        IF p = <<"sub">> THEN Dir ELSE t[Tail(p)]]

Merge(f, g) == [x \in DOMAIN f \cup DOMAIN g |-> IF x \in DOMAIN f THEN f[x] ELSE g[x]]

RECURSIVE Trees(_)
\* the trees whose paths have at most d components
Trees(d) ==
    IF d = 0 THEN {EmptyMap}
    ELSE {Merge(LevelOf(a), sub) :
            a \in [ListNames -> EntryKinds],
            sub \in {EmptyMap} \cup {Nest(t) : t \in Trees(d - 1)}}

InitList ==
    /\ exe_suffix \in Suffixes
    /\ cwd_utf8 = TRUE
    /\ bin \in Trees(MaxDepth)
    /\ outside = EmptyMap
    /\ cwd = EmptyMap
    /\ cwd_exists = TRUE
    /\ pc = "idle"
    /\ url = ""
    /\ repo = ""
    /\ ret = Returned("none", "", Unit)
    /\ stages = <<>>
    /\ removed = {}

NextList == List

SpecList == InitList /\ [][NextList]_vars

(***************************************************************************)
(* Properties.                                                             *)
(***************************************************************************)
InstallReturned == pc = "idle" /\ ret.op = "install"
InstallSucceeded == InstallReturned /\ ret.res = Ok(Unit)
AllOk(st) == \A i \in 1..Len(st) : st[i].ok

HasDir(p) == IF p \in DOMAIN bin THEN bin[p].kind = "dir" ELSE FALSE

\* Whether an entry lies where an enumerated name leads, read off the name
\* itself and not computed by the path resolution: "r" and "just-r" name the
\* entry just-r<suffix> of the binary directory; the other names go through
\* the directory just-r, to that directory itself, to the file sibling<suffix>
\* beside the binary directory, and to the entry x<suffix> of just-r.
Leads(n) ==
    CASE n \in {"r", "just-r"} -> <<"just-r" \o exe_suffix>> \in DOMAIN bin
      [] n = "r/" ->
            /\ HasDir(<<"just-r">>)
            /\ exe_suffix # "" => <<"just-r", exe_suffix>> \in DOMAIN bin
      [] n = "just-r/../../sibling" ->
            /\ HasDir(<<"just-r">>)
            /\ <<"p", "sibling" \o exe_suffix>> \in DOMAIN outside
      [] n = "just-r/../../../../p/bin/just-r/x" ->
            /\ HasDir(<<"just-r">>)
            /\ <<"just-r", "x" \o exe_suffix>> \in DOMAIN bin

\* the enumerated name that leads into the clone directory <cwd>/r, whose
\* content the state does not record: an entry can lie there only while the
\* directories on the way exist and the clone is not empty
IntoClone == "just-r/../../../w/r/x"
CanLeadIntoClone ==
    /\ HasDir(<<"just-r">>)
    /\ cwd_exists
    /\ IF "r" \in DOMAIN cwd THEN cwd["r"].st # "empty" ELSE FALSE

\* C1: is_installed(n) answers from the file system as it is at the call: it
\* is true exactly when an entry lies where the path of n leads (for a name
\* leading into a clone directory: only when one can lie there); it is true
\* right after an install whose repository name is n returned success, and
\* false right after uninstall(n) returned success.
C1_IsInstalledFollowsDisk ==
    /\ (ret.op = "is_installed" /\ ret.arg # IntoClone)
          => ret.res = Leads(ret.arg)
    /\ (ret.op = "is_installed" /\ ret.arg = IntoClone /\ ret.res)
          => CanLeadIntoClone
    /\ InstallSucceeded => Installed(repo)
    /\ (ret.op = "uninstall" /\ ret.res = Ok(Unit) /\ ret.arg # IntoClone)
          => (NotInstalled(ret.arg) /\ ~Leads(ret.arg))

\* an install of r succeeded and a later uninstall("r") succeeded
C1_Witness ==
    /\ ret = Returned("uninstall", "r", Ok(Unit))
    /\ url = "https://github.com/o/r"
    /\ Len(stages) = 6 /\ AllOk(stages)
    /\ NotInstalled("r")

\* C2: the failures of get_repository_name are checked in the order
\* malformed url, unsupported host, missing segment: a string that does not
\* parse yields the parse error, a parsed url with another host yields the
\* provider error whatever its path, and the missing-name error is returned
\* only for a parsed github.com url.
C2_ErrorPrecedence ==
    ret.op = "get_repository_name" =>
        LET u == Url_parse(ret.arg)
        IN  /\ ~u.ok => ret.res = Err(ErrParse)
            /\ (u.ok /\ u.host # Some("github.com")) => ret.res = Err(ErrProvider)
            /\ ret.res = Err(ErrNoName) => (u.ok /\ u.host = Some("github.com"))

\* a gitlab.com url without a repository segment was rejected for its host
C2_Witness ==
    /\ ret.op = "get_repository_name"
    /\ ret.arg = "https://gitlab.com/o"
    /\ ret.res = Err(ErrProvider)

\* C3: a repository name returned by get_repository_name is never empty.
C3_NameNonEmpty ==
    (ret.op = "get_repository_name" /\ ret.res.ok) => ret.res.val # ""

StageOrder == <<"resolve", "clean", "fetch", "build", "copy", "cleanup">>

\* C4: the stages of one install call run in the fixed order, each one at
\* most once and only after all earlier ones succeeded; a failed stage is the
\* last one executed and makes install return an error, so that no call ends
\* without returning; install returns success only when all six stages
\* succeeded.
C4_StagesInOrder ==
    /\ Len(stages) <= Len(StageOrder)
    /\ \A i \in 1..Len(stages) :
          /\ stages[i].name = StageOrder[i]
          /\ i < Len(stages) => stages[i].ok
    /\ pc \in {"clean", "fetch", "build", "copy", "cleanup"} =>
          /\ AllOk(stages)
          /\ pc = StageOrder[Len(stages) + 1]
    /\ (stages # <<>> /\ ~stages[Len(stages)].ok) => pc = "idle"
    /\ InstallReturned =>
          /\ ret.res.ok <=> (Len(stages) = Len(StageOrder) /\ AllOk(stages))
          /\ ~ret.res.ok => ~stages[Len(stages)].ok
    /\ pc # "aborted"

\* C5: when the fetch has succeeded, the directory it created is the working
\* directory <cwd>/<repo> that the build, the copy and the cleanup use.
C5_FetchIntoWorkDir ==
    pc = "build" =>
        /\ repo \in DOMAIN cwd
        /\ cwd[repo] = [st |-> "src", from |-> url]

\* C6 as amended: a successful install of repository r leaves the binary in
\* the binary directory under the name r + suffix when r begins with "just-"
\* and "just-" + r + suffix otherwise, which is the path assemble_path(r).
C6_InstalledName ==
    InstallSucceeded =>
        LET r == RepoOf[ret.arg].val
            name == (IF starts_with(r, "just-") THEN r ELSE "just-" \o r)
                        \o exe_suffix
        IN  /\ <<name>> \in DOMAIN bin
            /\ bin[<<name>>] = File(ret.arg)
            /\ assemble_path(r) = <<name>>

\* C6 as stated: the file name is "just-" + r + suffix for every r.
C6_AlwaysPrefixed ==
    InstallSucceeded =>
        LET r == RepoOf[ret.arg].val
            name == "just-" \o r \o exe_suffix
        IN  /\ <<name>> \in DOMAIN bin
            /\ bin[<<name>>] = File(ret.arg)
            /\ assemble_path(r) = <<name>>

\* a repository whose name already carries the prefix was installed
C6_Witness ==
    /\ InstallSucceeded
    /\ ret.arg = "https://github.com/o/just-r"
    /\ bin[<<"just-r" \o exe_suffix>>] = File(ret.arg)

FilesNamed(n) == {p \in DOMAIN bin : bin[p].kind = "file" /\ p[Len(p)] = n}

\* C7: list skips every directory: each name it returns occurs as often as
\* there are files of that name in the tree.
C7_NoDirectories ==
    ret.op = "list" =>
        \A n \in DOMAIN ret.res : ret.res[n] = Cardinality(FilesNamed(n))

\* C8: the names list returns are exactly the names of the files of the tree
\* that begin with "just-" and end with the platform suffix.
C8_ExactlyMatchingFiles ==
    ret.op = "list" =>
        DOMAIN ret.res =
            {p[Len(p)] : p \in {q \in DOMAIN bin :
                /\ bin[q].kind = "file"
                /\ starts_with(q[Len(q)], "just-")
                /\ ends_with(q[Len(q)], exe_suffix)}}

\* C9: an uninstall of a name with no entry where its path leads returns
\* success and leaves the binary directory, and every other directory, as it
\* was.
C9_UninstallAbsent ==
    [][(pc = "idle" /\ ret'.op = "uninstall" /\ NotInstalled(ret'.arg))
          => /\ ret'.res = Ok(Unit)
             /\ bin' = bin
             /\ outside' = outside
             /\ cwd' = cwd]_vars

\* the name leading back into the binary directory was uninstalled with
\* success in a run that never installed anything, from a binary directory
\* that holds other entries but no directory just-r
C9_Witness ==
    /\ ret = Returned("uninstall", "just-r/../../../../p/bin/just-r/x", Ok(Unit))
    /\ stages = <<>>
    /\ <<"readme">> \in DOMAIN bin
    /\ <<"sub", "just-s" \o exe_suffix>> \in DOMAIN bin

\* C10: when the build fails, install returns an error, the working
\* directory <cwd>/<repo> the fetch created is still there, and neither the
\* copy nor the cleanup ran.
C10_BuildFailureKeepsWorkDir ==
    (InstallReturned /\ ret.res = Err(BuildFailed)) =>
        /\ repo \in DOMAIN cwd
        /\ cwd[repo].from = url
        /\ Len(stages) = 4

LastStage == stages[Len(stages)]
CopySucceeded == \E i \in 1..Len(stages) : stages[i] = Stage("copy", TRUE)

\* what C11 says of a state: an install that returned after its cleanup
\* failed returned the io error with the copied binary installed, and an
\* install that returned an error after a successful copy failed in cleanup
C11_State ==
    InstallReturned =>
        /\ LastStage = Stage("cleanup", FALSE) =>
              /\ ret.res = Err(IoError)
              /\ Installed(repo)
              /\ assemble_path(repo) = <<prepend_just_prefix(repo) \o exe_suffix>>
              /\ bin[assemble_path(repo)] = File(url)
        /\ (~ret.res.ok /\ CopySucceeded) => LastStage = Stage("cleanup", FALSE)

\* what C11 says of a step: the copy is the only stage that writes to the
\* binary directory, and a copy that fails does not leave the built binary
C11_Step ==
    /\ (\/ pc \in {"clean", "fetch", "build", "cleanup"}
        \/ pc = "idle" /\ ret'.op = "install")
          => bin' = bin
    /\ (pc = "copy" /\ pc' = "idle") =>
          \/ bin' = bin
          \/ bin'[assemble_path(repo)] = File(PartialData)

\* C11: when the copy succeeds and the final removal of the working
\* directory fails, install returns an error with the binary installed
\* (is_installed is true and the destination is the copied binary), and no
\* other failure of install leaves the new binary in place.
C11_CleanupFailureKeepsBinary == []C11_State /\ [][C11_Step]_vars

\* an install returned the io error of its cleanup with the binary in place
C11_Witness ==
    /\ InstallReturned
    /\ LastStage = Stage("cleanup", FALSE)
    /\ ret.res = Err(IoError)
    /\ bin[assemble_path(repo)] = File(url)

\* C12: the fetch starts only with the working directory absent: a working
\* directory found at stage 2 has been removed by then; and when that
\* removal fails install returns the io error with the clean stage as the
\* last stage executed, so fetch, build and copy never run.
C12_StaleWorkDirRemoved ==
    /\ pc = "fetch" => ~PathExists(repo)
    /\ (stages # <<>> /\ LastStage = Stage("clean", FALSE)) =>
          /\ pc = "idle"
          /\ Len(stages) = 2
          /\ repo \in removed
          /\ ret.op = "install" => ret.res = Err(IoError)

\* the fetch is about to start after a stale <cwd>/r was removed
C12_Witness ==
    /\ pc = "fetch"
    /\ repo = "r"
    /\ removed = {"r"}
    /\ "r" \notin DOMAIN cwd

BeginsWithJust(n) == Len(n) >= 5 /\ SubSeq(n, 1, 5) = "just-"

\* C13: prepend_just_prefix applied to its own result returns it unchanged;
\* a name that does not begin with "just-" comes back as "just-" + name, and
\* a name that does comes back unchanged.
C13_CanonicalizeIdempotent ==
    /\ pc = "once" =>
          /\ ret.arg = url
          /\ ret.res = (IF BeginsWithJust(url) THEN url ELSE "just-" \o url)
    /\ pc = "twice" => ret.res = ret.arg

\* "r" became "just-r", and "just-r" was canonicalized again
C13_Witness ==
    /\ pc = "twice"
    /\ url = "r"
    /\ ret = Returned("prepend_just_prefix", "just-r", "just-r")

\* C14: when get_repository_name succeeds the url is a github.com url and
\* the name is the path segment at zero-based index 1, whatever segments
\* follow it; a url with any other host is rejected with the provider error.
C14_SecondSegment ==
    ret.op = "get_repository_name" =>
        LET u == Url_parse(ret.arg)
        IN  /\ ret.res.ok =>
                  /\ u.ok /\ u.host = Some("github.com")
                  /\ Len(u.segs.v) >= 2
                  /\ ret.res.val = u.segs.v[2]
            /\ (u.ok /\ u.host # Some("github.com")) => ret.res = Err(ErrProvider)

\* the second of three segments was returned
C14_Witness ==
    /\ ret.op = "get_repository_name"
    /\ ret.arg = "https://github.com/o/r/just-r"
    /\ ret.res = Ok("r")

\* C15: a call of install whose url get_repository_name rejects returns that
\* error at once and without side effect: no directory is removed, no stage
\* after the first runs, and both directories are as before.
C15_ResolveFailureNoEffect ==
    [][(pc = "idle" /\ ret'.op = "install" /\ ~RepoOf[ret'.arg].ok) =>
          /\ pc' = "idle"
          /\ ret'.res = Err(RepoOf[ret'.arg].val)
          /\ stages' = <<Stage("resolve", FALSE)>>
          /\ removed' = {}
          /\ bin' = bin
          /\ cwd' = cwd
          /\ cwd_exists' = cwd_exists]_vars

\* a gitlab url was rejected while a binary and a working directory existed
C15_Witness ==
    /\ ret = Returned("install", "https://gitlab.com/o/r", Err(ErrProvider))
    /\ pc = "idle"
    /\ Installed("r")
    /\ cwd # EmptyMap

\* C16: every remove_dir_all of install targets a proper child of the
\* current directory, named by the repository name: the current directory
\* itself is never a target and is never removed.
C16_RemovalsBelowCwd ==
    /\ cwd_exists
    /\ \A r \in removed : r = repo /\ ~IsCwdItself(r)

\* C17: the stages before the copy (name resolution, stale-workspace
\* removal, fetch, build) never change the binary directory, so an install
\* that returns an error raised in one of them leaves every file of the
\* binary directory, a previously installed binary included, as it was.
C17_EarlyFailureKeepsBin ==
    [][(\/ pc \in {"clean", "fetch", "build"}
        \/ pc = "idle" /\ ret'.op = "install") => bin' = bin]_vars

\* the binary installed from .../o/r is still there after an install of
\* .../o/just-r, which resolves to the same path, failed in its build
C17_Witness ==
    /\ InstallReturned
    /\ url = "https://github.com/o/just-r"
    /\ ret.res = Err(BuildFailed)
    /\ <<"just-r" \o exe_suffix>> \in DOMAIN bin
    /\ bin[<<"just-r" \o exe_suffix>>] = File("https://github.com/o/r")

\* what C18 says of a repository name r: r and "just-" + r have one path,
\* is_installed answers for both by the entry at that path, a successful
\* install of either repository leaves its own binary there (replacing the
\* other's), and a successful uninstall by either name leaves no entry there
SharesPath(r) ==
    LET both == {r, JUST_PREFIX \o r}
        path == assemble_path(r)
    IN  /\ \A n \in both : assemble_path(n) = path
        /\ Len(path) = 1
        /\ is_installed(JUST_PREFIX \o r) = is_installed(r)
        /\ (ret.op = "is_installed" /\ ret.arg \in both)
              => ret.res = (path \in DOMAIN bin)
        /\ (InstallSucceeded /\ repo \in both)
              => IF path \in DOMAIN bin THEN bin[path] = File(url) ELSE FALSE
        /\ (ret.op = "uninstall" /\ ret.arg \in both /\ ret.res = Ok(Unit))
              => path \notin DOMAIN bin

\* C18 as stated: every repository name r shares its path with "just-" + r.
C18_SharedPath == \A r \in RepoNames : SharesPath(r)

\* C18 as amended: a repository name r that does not begin with "just-"
\* shares its path with "just-" + r: is_installed answers the same for
\* both, a successful install of either leaves its own binary at that path,
\* and a successful uninstall by either name leaves neither installed.
C18_SharedPathUnprefixed ==
    \A r \in RepoNames : ~starts_with(r, JUST_PREFIX) => SharesPath(r)

JustR == <<"just-r" \o exe_suffix>>

\* the install of .../o/just-r is about to copy over the binary of .../o/r
C18_Witness ==
    /\ pc = "copy"
    /\ repo = "just-r"
    /\ JustR \in DOMAIN bin
    /\ bin[JustR] = File("https://github.com/o/r")

\* the files of the binary directory the path can lead to, as paths below it
TargetsIn(path) ==
    {Below(BinPath, o.at) : o \in {t \in Resolutions(path) :
        t.kind = "file" /\ ~t.inside /\ IsPrefix(BinPath, t.at)}}

\* C19: uninstall(n) creates nothing and removes at most the one file the
\* path of n leads to: every other entry of the binary directory is
\* unchanged whether it succeeds or fails; when it fails nothing is changed
\* and n is still installed.
C19_UninstallFrame ==
    [][(pc = "idle" /\ ret'.op = "uninstall") =>
          \E n \in Names :
              /\ ret'.arg = n
              /\ DOMAIN bin' \subseteq DOMAIN bin
              /\ \A p \in DOMAIN bin' : bin'[p] = bin[p]
              /\ Cardinality(DOMAIN bin \ DOMAIN bin') <= 1
              /\ (DOMAIN bin \ DOMAIN bin') \subseteq TargetsIn(assemble_path(n))
              /\ ~ret'.res.ok =>
                    /\ bin' = bin
                    /\ outside' = outside
                    /\ cwd' = cwd
                    /\ TRUE \in is_installed(n)
                    /\ n # IntoClone => (Installed(n) /\ Leads(n))]_vars

\* the name that leaves the binary directory and leads back into it was
\* uninstalled: the file x of the directory just-r is gone, just-r is there
C19_Witness ==
    /\ ret = Returned("uninstall", "just-r/../../../../p/bin/just-r/x", Ok(Unit))
    /\ stages = <<>>
    /\ DOMAIN bin = {<<"just-r">>}
    /\ HasDir(<<"just-r">>)

\* C20: when install has returned success, the working directory
\* <cwd>/<repo> is gone, a file is at assemble_path(repo), and all of
\* resolve, clean, fetch, build, copy and cleanup completed successfully.
C20_SuccessPostcondition ==
    InstallSucceeded =>
        /\ ~IsCwdItself(repo)
        /\ repo \notin DOMAIN cwd
        /\ assemble_path(repo) \in DOMAIN bin
        /\ bin[assemble_path(repo)].kind = "file"
        /\ Len(stages) = Len(StageOrder)
        /\ \A i \in 1..Len(stages) : stages[i] = Stage(StageOrder[i], TRUE)

\* install of .../o/r returned Ok(()): binary in place, <cwd>/r removed
C20_Witness ==
    /\ InstallSucceeded
    /\ url = "https://github.com/o/r"
    /\ "r" \in removed
    /\ Installed("r")

====
